---- MODULE Spec2Model ----
(***************************************************************************)
(* Model of the sidecar supervisor of televoodoo-viewer                    *)
(* (src-tauri/src/main.rs): the global slot PYTHON_CHILD and its mutex,    *)
(* the commands start_python and stop_python, cleanup_python and the       *)
(* window-event hooks of main, the worker processes as the operating       *)
(* system sees them, and the two output relay threads of each worker.      *)
(*                                                                         *)
(* Target: unix (the cfg(unix) branches).  The variable macos tells a build *)
(* for macOS, which probes and installs pyobjc before the spawn, from one  *)
(* for another unix.  Spec, SpecLive, SpecLaunch and SpecRelay run a build *)
(* that is not for macOS; SpecBoot runs a packaged build of either kind on *)
(* every file system.                                                      *)
(* Thread 0 is the host's main thread (event loop and hooks); threads      *)
(* 1..NCmd run the asynchronous commands.  An Option is a sequence: <<>>   *)
(* is None and <<v>> is Some(v).  An f64 is held in tenths (900 is 90.0).  *)
(*                                                                         *)
(* The mutex is never poisoned: nothing panics while it is held, so the    *)
(* `if let Ok(guard)` of lines 155, 298 and 342 always takes its branch.   *)
(* kill() returns once the signal is sent; the process ends in a later     *)
(* step of the operating system (ProcExit).  Environment variables of the  *)
(* worker are not modelled.                                                *)
(***************************************************************************)
EXTENDS Integers, Sequences, FiniteSets, TLC

\* ------------------------------------------------------------------ bounds
NCmd == 2
MaxPid == 2
MaxBytes == 4    \* bytes the workers write in a behaviour
MaxLines == 1    \* lines relayed in a behaviour

Main == 0
CmdThreads == 1..NCmd
Threads == {Main} \cup CmdThreads
Pids == 1..MaxPid
None == 0
Free == -1
Streams == {"stdout", "stderr"}
CleanupOps == {"stop_python", "CloseRequested", "Destroyed", "exit"}

VARIABLES
    PYTHON_CHILD,   \* the slot: None or the pid of the stored Child
    lock,           \* holder of the mutex around PYTHON_CHILD: Free or a thread
    proc,           \* pid -> "unborn" | "alive" | "exited" (not yet waited for) | "reaped"
    sigs,           \* pid -> sequence of signals sent so far: "TERM", "KILLG", "KILL"
    pc,             \* thread -> position in its current call
    op,             \* thread -> the call it is in / has just returned from
    child,          \* thread -> the Child the call holds (spawned, or taken from the slot)
    result,         \* thread -> "none" | "ok" | "err": the value the call returned
    installs,       \* thread -> number of handles the current call stored in the slot
    replaced,       \* pid -> the pid it found in the slot when it was installed
    relay,          \* pid -> TRUE once the two relay threads of that worker run
    emitted,        \* pid -> stream -> lines the relay has emitted as events
    pipes,          \* pid -> stream -> the pipe, its reader's position and its events
    host,           \* "running" | "closing" | "destroyed" | "exited"
    debug,          \* cfg!(debug_assertions): TRUE in a development build
    macos,          \* cfg(target_os = "macos"): TRUE in a build for macOS
    fs,             \* the paths that exist (and the path-resolver calls that succeed)
    config,         \* thread -> the StartConfig of its start_python call
    bootops,        \* thread -> the external operations its start has run before the spawn
    prog,           \* pid -> the program the worker was spawned with
    argv,           \* pid -> its argument list
    cwd             \* pid -> its working directory, <<>> if inherited from the host

vars == <<PYTHON_CHILD, lock, proc, sigs, pc, op, child, result, installs,
          replaced, relay, emitted, pipes, host, debug, macos, fs, config, bootops, prog, argv,
          cwd>>

procVars == <<proc, sigs>>
relayVars == <<relay, emitted, pipes>>
launchVars == <<prog, argv, cwd>>
staticVars == <<debug, macos, fs, launchVars>>

\* ------------------------------------------------------------------ StartConfig
\* Lines 49-61.  The fields are deserialized as they come: connection is any
\* string, the two rates any f64.
StartConfig(c, n, k, u, r) ==
    [connection |-> c, name |-> n, code |-> k, upsample_hz |-> u, rate_limit_hz |-> r]

NoConfig == StartConfig("", <<>>, <<>>, <<>>, <<>>)

Connections == {"wifi", "ble", "usb", "lan"}
Names == {<<>>, <<"rig">>}
Codes == {<<>>, <<"ABC123">>}
Rates == {<<>>, <<900>>, <<5>>, <<0>>, <<-50>>}

AllConfigs ==
    {StartConfig(c, n, k, u, r) :
        c \in Connections, n \in Names, k \in Codes, u \in Rates, r \in Rates}

\* The configurations the concurrent specification starts workers with.
SpecConfigs == {StartConfig("usb", <<>>, <<>>, <<>>, <<>>)}

\* ------------------------------------------------------------------ file system
DevPython == "repo/python/.venv/bin/python"
DevTelevoodoo == "repo/python/televoodoo"
DevSrc == "repo/python/televoodoo/src"
RtPython == "data/python/.venv/bin/python"
RtPip == "data/python/.venv/bin/pip"
RtTelevoodoo == "data/python/televoodoo"
Candidate1 == "res/python"
Candidate2 == "res/resources/python"
\* "resource_dir" / "app_data_dir" in fs: the path resolver returns Ok for it.
ResourceDir == "resource_dir"
AppDataDir == "app_data_dir"

Join(dir, name) == dir \o "/" \o name
Pyproject(dir) == Join(dir, "televoodoo/pyproject.toml")
Requirements(dir) == Join(dir, "televoodoo/requirements.txt")

FsDev == {DevPython, DevTelevoodoo, DevSrc}
FsFresh == {ResourceDir, AppDataDir, Candidate1, Pyproject(Candidate1),
            Requirements(Candidate1)}
FsReady == FsFresh \cup {RtPython, RtPip, "data/python/televoodoo/pyproject.toml"}
\* The file systems the concurrent specification starts from: a complete
\* checkout next to a bootstrapped packaged install, and a bare one.
SpecFs == {FsDev \cup FsReady, {DevTelevoodoo}}

\* The paths a packaged build looks at.
BootPaths == {ResourceDir, AppDataDir, Candidate1, Candidate2,
              Pyproject(Candidate1), Pyproject(Candidate2), Requirements(Candidate1),
              RtPython, RtPip, Pyproject("data/python")}

\* A file of a bundled directory exists only in an existing directory.
WellFormedFs(f) ==
    /\ Pyproject(Candidate1) \in f => Candidate1 \in f
    /\ Requirements(Candidate1) \in f => Candidate1 \in f
    /\ Pyproject(Candidate2) \in f => Candidate2 \in f

\* Every combination of existence of those paths.
BootFs == {f \in SUBSET BootPaths : WellFormedFs(f)}

\* Lines 34-46
find_bundled_python_dir(f) ==
    IF ResourceDir \in f
    THEN IF Candidate1 \in f THEN <<Candidate1>>
         ELSE IF Candidate2 \in f THEN <<Candidate2>>
         ELSE <<>>
    ELSE <<>>

\* ------------------------------------------------------------------ bootstrap
\* Results of the external steps of lines 201-211 that the file system shows:
\* copy_dir_all brings the manifest over or fails before it; `python3 -m venv`
\* leaves nothing, an interpreter without pip, or both.  objc is the result of
\* the `import objc` probe of lines 114-117 / 256-259: it succeeds, it exits
\* with a failure status, or it cannot be run.
BootOutcomes == [copy : BOOLEAN, venv : {"none", "python", "full"},
                 objc : {"ok", "missing", "norun"}]

\* Variant: the bootstrap block runs whether or not the interpreter exists.
NeedsBootstrap_always(f) ==
    /\ AppDataDir \in f
    /\ find_bundled_python_dir(f) # <<>>
    /\ Pyproject(find_bundled_python_dir(f)[1]) \in f

\* Lines 190-200: the conditions under which the bootstrap block runs.
NeedsBootstrap(f) ==
    /\ AppDataDir \in f
    /\ RtPython \notin f
    /\ find_bundled_python_dir(f) # <<>>
    /\ Pyproject(find_bundled_python_dir(f)[1]) \in f

\* Lines 201-204: the file system after the copy and the venv creation.
Bootstrap(f, boot) ==
    f \cup (IF boot.copy THEN {Pyproject("data/python")} ELSE {})
      \cup (CASE boot.venv = "none" -> {}
              [] boot.venv = "python" -> {RtPython}
              [] boot.venv = "full" -> {RtPython, RtPip})

\* Lines 201-211: the operations the bootstrap block runs, in order.
BootstrapOps(f, boot) ==
    <<"create_dir_all", "copy_dir_all", "venv">> \o
    (IF RtPip \in Bootstrap(f, boot)
     THEN <<"pip_upgrade">> \o
          (IF Requirements(find_bundled_python_dir(f)[1]) \in f
           THEN <<"pip_requirements">> ELSE <<>>) \o
          <<"pip_package">>
     ELSE <<>>)

\* Lines 112-126 / 254-268: a macOS build installs pyobjc when the probe fails.
EnsurePyobjc(mac, boot) ==
    IF mac /\ boot.objc = "missing" THEN <<"pip_pyobjc">> ELSE <<>>

\* Variant: a packaged build always runs the runtime interpreter.
Interpreter_runtime(f) == RtPython

\* Lines 189, 216-218: the interpreter of a packaged build.
Interpreter(f) ==
    IF AppDataDir \in f /\ RtPython \in f THEN RtPython ELSE "python3"

\* Lines 74-79: the interpreter of a development build.
DevInterpreter(f) == IF DevPython \in f THEN DevPython ELSE "python3"

\* Lines 240-251: the working directory of a packaged build (<<>>: not set).
WorkingDir(f) ==
    LET b == find_bundled_python_dir(f) IN
    IF b # <<>>
    THEN IF Pyproject(b[1]) \in f THEN <<Join(b[1], "televoodoo")>> ELSE <<>>
    ELSE IF AppDataDir \in f /\ Pyproject("data/python") \in f
         THEN <<RtTelevoodoo>> ELSE <<>>

\* ------------------------------------------------------------------ arguments
Digit(d) ==
    CASE d = 0 -> "0" [] d = 1 -> "1" [] d = 2 -> "2" [] d = 3 -> "3" [] d = 4 -> "4"
      [] d = 5 -> "5" [] d = 6 -> "6" [] d = 7 -> "7" [] d = 8 -> "8" [] d = 9 -> "9"

RECURSIVE NatToString(_)
NatToString(n) ==
    IF n < 10 THEN Digit(n) ELSE NatToString(n \div 10) \o Digit(n % 10)

\* f64::to_string of x tenths (lines 105, 108): shortest form, no trailing ".0".
F64ToString(x) ==
    LET a == IF x < 0 THEN -x ELSE x
        body == NatToString(a \div 10) \o
                (IF a % 10 = 0 THEN "" ELSE "." \o Digit(a % 10))
    IN IF x < 0 THEN "-" \o body ELSE body

\* Variant: an absent field is passed as an empty value.
OptArg_sentinel(flag, o) == IF o = <<>> THEN <<flag, "">> ELSE <<flag, o[1]>>

OptArg(flag, o) == IF o = <<>> THEN <<>> ELSE <<flag, o[1]>>
OptRate(flag, o) == IF o = <<>> THEN <<>> ELSE <<flag, F64ToString(o[1])>>

\* Lines 91-109 / 222-238
Args(cfg) ==
    <<"-m", "televoodoo", "--connection", cfg.connection>>
        \o OptArg("--name", cfg.name)
        \o OptArg("--code", cfg.code)
        \o OptRate("--upsample-hz", cfg.upsample_hz)
        \o OptRate("--rate-limit-hz", cfg.rate_limit_hz)

\* ------------------------------------------------------------------ helpers
Alive == {p \in Pids : proc[p] = "alive"}
Spawned == {p \in Pids : proc[p] # "unborn"}
NextPid == Cardinality(Spawned) + 1

\* The runtime hands a command to a free thread of its pool; which one makes no
\* difference, so let it be the lowest.
Picks(t) == \A u \in CmdThreads : u < t => pc[u] # "idle"

\* Command::spawn: the outcomes of line 145-149 / 287-291
SpawnOutcomes == {"ok", "err"}

\* A pipe of a worker: the bytes written to it, whether every write end is
\* closed, how many bytes its reader has consumed, the events the reader has
\* emitted and whether the reader's loop has ended.
NoPipe == [written |-> <<>>, closed |-> FALSE, pos |-> 0, events |-> <<>>, done |-> FALSE]

InitState ==
    /\ PYTHON_CHILD = None
    /\ lock = Free
    /\ proc = [p \in Pids |-> "unborn"]
    /\ sigs = [p \in Pids |-> <<>>]
    /\ pc = [t \in Threads |-> "idle"]
    /\ op = [t \in Threads |-> "none"]
    /\ child = [t \in Threads |-> None]
    /\ result = [t \in Threads |-> "none"]
    /\ installs = [t \in Threads |-> 0]
    /\ replaced = [p \in Pids |-> None]
    /\ relay = [p \in Pids |-> FALSE]
    /\ emitted = [p \in Pids |-> [s \in Streams |-> 0]]
    /\ pipes = [p \in Pids |-> [s \in Streams |-> NoPipe]]
    /\ host = "running"
    /\ config = [t \in Threads |-> NoConfig]
    /\ bootops = [t \in Threads |-> <<>>]
    /\ prog = [p \in Pids |-> ""]
    /\ argv = [p \in Pids |-> <<>>]
    /\ cwd = [p \in Pids |-> <<>>]
    /\ debug \in BOOLEAN

\* The concurrent specifications run a build for Linux.
Init == InitState /\ fs \in SpecFs /\ macos = FALSE

\* ------------------------------------------------------------------ start_python
\* Lines 81-88: a development build returns Err when a directory is missing.
DevDirsMissing(f) == DevTelevoodoo \notin f \/ DevSrc \notin f

\* Variant: the start kills the current worker before it tries to spawn.
start_python_spawn_kill_first(t, cfg, boot, outcome) ==
    LET boots == ~debug /\ NeedsBootstrap(fs)
        fs1 == IF boots THEN Bootstrap(fs, boot) ELSE fs
        python == IF debug THEN DevInterpreter(fs) ELSE Interpreter(fs1)
        dir == IF debug THEN <<DevTelevoodoo>> ELSE WorkingDir(fs1)
        fails == (debug /\ DevDirsMissing(fs)) \/ outcome = "err"
    IN
    /\ host # "exited"
    /\ t \in CmdThreads
    /\ pc[t] = "idle"
    /\ Picks(t)
    /\ op' = [op EXCEPT ![t] = "start_python"]
    /\ config' = [config EXCEPT ![t] = cfg]
    /\ installs' = [installs EXCEPT ![t] = 0]
    /\ fs' = fs1
    /\ bootops' = [bootops EXCEPT ![t] =
                      IF debug /\ DevDirsMissing(fs) THEN <<>>
                      ELSE (IF boots THEN BootstrapOps(fs, boot) ELSE <<>>)
                           \o EnsurePyobjc(macos, boot)]
    /\ IF fails
       THEN /\ child' = [child EXCEPT ![t] = None]
            /\ pc' = [pc EXCEPT ![t] = "done"]
            /\ result' = [result EXCEPT ![t] = "err"]
            /\ UNCHANGED <<proc, launchVars>>
       ELSE /\ NextPid \in Pids
            /\ proc' = [proc EXCEPT ![NextPid] = "alive"]
            /\ prog' = [prog EXCEPT ![NextPid] = python]
            /\ argv' = [argv EXCEPT ![NextPid] = Args(cfg)]
            /\ cwd' = [cwd EXCEPT ![NextPid] = dir]
            /\ child' = [child EXCEPT ![t] = NextPid]
            /\ pc' = [pc EXCEPT ![t] = "spawned"]
            /\ result' = [result EXCEPT ![t] = "none"]
    /\ sigs' = IF PYTHON_CHILD = None THEN sigs
               ELSE [sigs EXCEPT ![PYTHON_CHILD] = Append(@, "KILL")]
    /\ UNCHANGED <<PYTHON_CHILD, lock, replaced, relayVars, host, debug, macos>>

\* Lines 64-149 / 188-291: resolve, bootstrap, build the command, spawn.  No
\* lock is held.  boot and outcome are the results of the external steps.
start_python_spawn(t, cfg, boot, outcome) ==
    LET boots == ~debug /\ NeedsBootstrap(fs)
        fs1 == IF boots THEN Bootstrap(fs, boot) ELSE fs
        python == IF debug THEN DevInterpreter(fs) ELSE Interpreter(fs1)
        dir == IF debug THEN <<DevTelevoodoo>> ELSE WorkingDir(fs1)
        fails == (debug /\ DevDirsMissing(fs)) \/ outcome = "err"
    IN
    /\ host # "exited"
    /\ t \in CmdThreads
    /\ pc[t] = "idle"
    /\ Picks(t)
    /\ op' = [op EXCEPT ![t] = "start_python"]
    /\ config' = [config EXCEPT ![t] = cfg]
    /\ installs' = [installs EXCEPT ![t] = 0]
    /\ fs' = fs1
    /\ bootops' = [bootops EXCEPT ![t] =
                      IF debug /\ DevDirsMissing(fs) THEN <<>>
                      ELSE (IF boots THEN BootstrapOps(fs, boot) ELSE <<>>)
                           \o EnsurePyobjc(macos, boot)]
    /\ IF fails
       THEN /\ child' = [child EXCEPT ![t] = None]
            /\ pc' = [pc EXCEPT ![t] = "done"]
            /\ result' = [result EXCEPT ![t] = "err"]
            /\ UNCHANGED <<proc, launchVars>>
       ELSE /\ NextPid \in Pids
            /\ proc' = [proc EXCEPT ![NextPid] = "alive"]
            /\ prog' = [prog EXCEPT ![NextPid] = python]
            /\ argv' = [argv EXCEPT ![NextPid] = Args(cfg)]
            /\ cwd' = [cwd EXCEPT ![NextPid] = dir]
            /\ child' = [child EXCEPT ![t] = NextPid]
            /\ pc' = [pc EXCEPT ![t] = "spawned"]
            /\ result' = [result EXCEPT ![t] = "none"]
    /\ UNCHANGED <<PYTHON_CHILD, lock, sigs, replaced, relayVars, host, debug, macos>>

\* Child::kill on the old handle (line 158 / 301): SIGKILL to the pid, no wait.
Kill(s, old) ==
    IF old = None THEN s ELSE [s EXCEPT ![old] = Append(@, "KILL")]

\* Variant: a start that finds the slot occupied leaves the old child in place.
start_python_install_keep(t) ==
    /\ host # "exited"
    /\ pc[t] = "spawned"
    /\ op[t] = "start_python"
    /\ lock = Free
    /\ IF PYTHON_CHILD = None
       THEN /\ PYTHON_CHILD' = child[t]
            /\ installs' = [installs EXCEPT ![t] = @ + 1]
       ELSE UNCHANGED <<PYTHON_CHILD, installs>>
    /\ pc' = [pc EXCEPT ![t] = "installed"]
    /\ UNCHANGED <<lock, proc, sigs, replaced, op, child, result, relayVars, host,
                   config, bootops, staticVars>>

\* Lines 155-161 / 298-304: lock, take and kill the old child, store the new one.
start_python_install(t) ==
    /\ host # "exited"
    /\ pc[t] = "spawned"
    /\ op[t] = "start_python"
    /\ lock = Free
    /\ sigs' = Kill(sigs, PYTHON_CHILD)
    /\ replaced' = [replaced EXCEPT ![child[t]] = PYTHON_CHILD]
    /\ PYTHON_CHILD' = child[t]
    /\ installs' = [installs EXCEPT ![t] = @ + 1]
    /\ pc' = [pc EXCEPT ![t] = "installed"]
    /\ UNCHANGED <<lock, proc, op, child, result, relayVars, host,
                   config, bootops, staticVars>>

\* Variant: the relay threads are started right after the spawn and the call
\* returns without having stored its child.
start_python_relay_early(t) ==
    /\ host # "exited"
    /\ pc[t] = "spawned"
    /\ op[t] = "start_python"
    /\ relay' = [relay EXCEPT ![child[t]] = TRUE]
    /\ pc' = [pc EXCEPT ![t] = "done"]
    /\ result' = [result EXCEPT ![t] = "ok"]
    /\ UNCHANGED <<PYTHON_CHILD, lock, procVars, op, child, installs, replaced,
                   emitted, pipes, host,
                   config, bootops, staticVars>>

\* Lines 163-185 / 306-331: spawn the two relay threads, return Ok(()).
start_python_relay(t) ==
    /\ host # "exited"
    /\ pc[t] = "installed"
    /\ op[t] = "start_python"
    /\ relay' = [relay EXCEPT ![child[t]] = TRUE]
    /\ pc' = [pc EXCEPT ![t] = "done"]
    /\ result' = [result EXCEPT ![t] = "ok"]
    /\ UNCHANGED <<PYTHON_CHILD, lock, procVars, op, child, installs, replaced,
                   emitted, pipes, host,
                   config, bootops, staticVars>>

\* ------------------------------------------------------------------ cleanup_python
\* A cleanup call starts: stop_python on a command thread (line 335-336), a hook
\* or the final cleanup on the main thread (lines 387-397, 405).
CanCall(t, o) ==
    /\ host # "exited"
    /\ pc[t] = "idle"
    /\ \/ t \in CmdThreads /\ o = "stop_python" /\ Picks(t)
       \/ t = Main /\ o = "CloseRequested" /\ host = "running"
       \/ t = Main /\ o = "Destroyed" /\ host \in {"running", "closing"}
       \/ t = Main /\ o = "exit"

\* The host's state once the call o has returned.
HostAfter(o) ==
    CASE o = "CloseRequested" -> "closing"
      [] o = "Destroyed" -> "destroyed"
      [] o = "exit" -> "exited"
      [] OTHER -> host

\* Variant: a stop that finds nothing to stop reports an error.
cleanup_python_none_err(t, o) ==
    /\ CanCall(t, o)
    /\ lock = Free
    /\ PYTHON_CHILD = None
    /\ op' = [op EXCEPT ![t] = o]
    /\ child' = [child EXCEPT ![t] = None]
    /\ installs' = [installs EXCEPT ![t] = 0]
    /\ pc' = [pc EXCEPT ![t] = "done"]
    /\ result' = [result EXCEPT ![t] = "err"]
    /\ host' = HostAfter(o)
    /\ UNCHANGED <<PYTHON_CHILD, lock, procVars, replaced, relayVars,
                   config, bootops, staticVars>>

\* Lines 342-343 with an empty slot: lock, take() = None, unlock, return.
cleanup_python_none(t, o) ==
    /\ CanCall(t, o)
    /\ lock = Free
    /\ PYTHON_CHILD = None
    /\ op' = [op EXCEPT ![t] = o]
    /\ child' = [child EXCEPT ![t] = None]
    /\ installs' = [installs EXCEPT ![t] = 0]
    /\ pc' = [pc EXCEPT ![t] = "done"]
    /\ result' = [result EXCEPT ![t] = "ok"]
    /\ host' = HostAfter(o)
    /\ UNCHANGED <<PYTHON_CHILD, lock, procVars, replaced, relayVars,
                   config, bootops, staticVars>>

\* Variant: the first signal is SIGKILL.
Term_kill(s, p) == [s EXCEPT ![p] = Append(@, "KILL")]

\* libc::kill(pid, SIGTERM), line 348
Term(s, p) == [s EXCEPT ![p] = Append(@, "TERM")]

\* Lines 342-351 with a child in the slot: lock, take() it, SIGTERM, sleep.
cleanup_python_take(t, o) ==
    /\ CanCall(t, o)
    /\ lock = Free
    /\ PYTHON_CHILD # None
    /\ lock' = t
    /\ child' = [child EXCEPT ![t] = PYTHON_CHILD]
    /\ PYTHON_CHILD' = None
    /\ sigs' = Term(sigs, PYTHON_CHILD)
    /\ op' = [op EXCEPT ![t] = o]
    /\ installs' = [installs EXCEPT ![t] = 0]
    /\ pc' = [pc EXCEPT ![t] = "sleep"]
    /\ result' = [result EXCEPT ![t] = "none"]
    /\ UNCHANGED <<proc, replaced, relayVars, host,
                   config, bootops, staticVars>>

\* Variant: the poll never reports an exit.
TryWaitExited_never(p) == FALSE

\* child.try_wait(), line 354: Ok(Some(_)) exactly when the process has exited
\* (the status is then collected); every other result takes the arm of line 356.
TryWaitExited(p) == proc[p] = "exited"

\* Variant: the escalation sends no signal and goes straight to the wait.
Escalate_none(s, p) == s

\* Lines 359 and 362: SIGKILL to the process group, then to the pid.
Escalate(s, p) == [s EXCEPT ![p] = @ \o <<"KILLG", "KILL">>]

\* Lines 354-362: poll; return if exited, else escalate.
cleanup_python_poll(t) ==
    /\ host # "exited"
    /\ pc[t] = "sleep"
    /\ lock = t
    /\ IF TryWaitExited(child[t])
       THEN /\ proc' = [proc EXCEPT ![child[t]] = "reaped"]
            /\ sigs' = sigs
            /\ lock' = Free
            /\ pc' = [pc EXCEPT ![t] = "done"]
            /\ result' = [result EXCEPT ![t] = "ok"]
            /\ host' = HostAfter(op[t])
       ELSE /\ sigs' = Escalate(sigs, child[t])
            /\ pc' = [pc EXCEPT ![t] = "wait"]
            /\ UNCHANGED <<proc, lock, result, host>>
    /\ UNCHANGED <<PYTHON_CHILD, op, child, installs, replaced, relayVars,
                   config, bootops, staticVars>>

\* Variant: the call returns after the kill without waiting for the exit.
cleanup_python_nowait(t) ==
    /\ host # "exited"
    /\ pc[t] = "wait"
    /\ lock = t
    /\ lock' = Free
    /\ pc' = [pc EXCEPT ![t] = "done"]
    /\ result' = [result EXCEPT ![t] = "ok"]
    /\ host' = HostAfter(op[t])
    /\ UNCHANGED <<PYTHON_CHILD, procVars, op, child, installs, replaced, relayVars,
                   config, bootops, staticVars>>

\* Line 365: child.wait() returns once the process has exited; then unlock, return.
cleanup_python_wait(t) ==
    /\ host # "exited"
    /\ pc[t] = "wait"
    /\ lock = t
    /\ proc[child[t]] = "exited"
    /\ proc' = [proc EXCEPT ![child[t]] = "reaped"]
    /\ lock' = Free
    /\ pc' = [pc EXCEPT ![t] = "done"]
    /\ result' = [result EXCEPT ![t] = "ok"]
    /\ host' = HostAfter(op[t])
    /\ UNCHANGED <<PYTHON_CHILD, sigs, op, child, installs, replaced, relayVars,
                   config, bootops, staticVars>>

\* The caller has its result: the thread is free for the next call.
Return(t) ==
    /\ host # "exited"
    /\ pc[t] = "done"
    /\ pc' = [pc EXCEPT ![t] = "idle"]
    /\ op' = [op EXCEPT ![t] = "none"]
    /\ child' = [child EXCEPT ![t] = None]
    /\ result' = [result EXCEPT ![t] = "none"]
    /\ installs' = [installs EXCEPT ![t] = 0]
    /\ config' = [config EXCEPT ![t] = NoConfig]
    /\ bootops' = [bootops EXCEPT ![t] = <<>>]
    /\ UNCHANGED <<PYTHON_CHILD, lock, procVars, replaced, relayVars, host, staticVars>>

\* ------------------------------------------------------------------ environment
\* A worker process ends: on its own, on SIGTERM, or when a SIGKILL takes effect.
\* A signal is delivered some time after kill() has returned.
ProcExit(p) ==
    /\ proc[p] = "alive"
    /\ proc' = [proc EXCEPT ![p] = "exited"]
    /\ UNCHANGED <<PYTHON_CHILD, lock, sigs, pc, op, child, result, installs,
                   replaced, relayVars, host,
                   config, bootops, staticVars>>

\* The lines relayed so far, over all workers and both streams.
RECURSIVE SumLines(_)
SumLines(P) ==
    IF P = {} THEN 0
    ELSE LET p == CHOOSE q \in P : TRUE
         IN emitted[p]["stdout"] + emitted[p]["stderr"] + SumLines(P \ {p})
Relayed == SumLines(Pids)

\* Lines 164-184 / 307-329: a relay thread reads the next line of its pipe and
\* emits it.  The worker may have written the line at any time since its spawn
\* (the pipe buffers it, also past the worker's exit), so a line is there to read
\* whenever the bound on the lines of a behaviour allows one more.
RelayEmit(p, s) ==
    /\ host # "exited"
    /\ relay[p]
    /\ Relayed < MaxLines
    /\ emitted' = [emitted EXCEPT ![p][s] = @ + 1]
    /\ UNCHANGED <<PYTHON_CHILD, lock, procVars, pc, op, child, result, installs,
                   replaced, relay, pipes, host,
                   config, bootops, staticVars>>

\* ------------------------------------------------------------------ the relay loops
\* The relay in detail: the bytes of a pipe, BufRead::lines() over them, and the
\* events.  RelayEmit above is the same loop with the worker's write and the
\* reader's emit merged and the content left out.
Newline == 10
InvalidByte == 255      \* a byte no UTF-8 text contains
Bytes == {65, Newline, InvalidByte}

\* String::from_utf8 over the bytes the worker can write here.
Utf8Valid(line) == \A i \in 1..Len(line) : line[i] < 128

\* Position of the first newline of b, 0 if none.
FirstNewline(b) ==
    IF \E i \in 1..Len(b) : b[i] = Newline
    THEN CHOOSE i \in 1..Len(b) : b[i] = Newline /\ \A j \in 1..(i - 1) : b[j] # Newline
    ELSE 0

\* All write ends are closed: the worker closed the stream, or it has ended.
Closed(p, s) == pipes[p][s].closed \/ proc[p] \in {"exited", "reaped"}

RECURSIVE SumBytes(_)
SumBytes(P) ==
    IF P = {} THEN 0
    ELSE LET p == CHOOSE q \in P : TRUE
         IN Len(pipes[p]["stdout"].written) + Len(pipes[p]["stderr"].written)
            + SumBytes(P \ {p})
Written == SumBytes(Pids)

\* The worker writes a byte to its stdout or stderr; the pipe buffers it.
WorkerWrite(p, s, b) ==
    /\ proc[p] = "alive"
    /\ ~pipes[p][s].closed
    /\ Written < MaxBytes
    /\ pipes' = [pipes EXCEPT ![p][s].written = Append(@, b)]
    /\ UNCHANGED <<PYTHON_CHILD, lock, procVars, pc, op, child, result, installs,
                   replaced, relay, emitted, host, config, bootops, staticVars>>

\* The worker closes one of its streams while it runs.
StreamClose(p, s) ==
    /\ proc[p] = "alive"
    /\ ~pipes[p][s].closed
    /\ pipes' = [pipes EXCEPT ![p][s].closed = TRUE]
    /\ UNCHANGED <<PYTHON_CHILD, lock, procVars, pc, op, child, result, installs,
                   replaced, relay, emitted, host, config, bootops, staticVars>>

\* Variant: the loop emits a line whether or not it decodes.
Deliver_any(ev, line) == Append(ev, line)

\* Lines 310-312 / 323-325: if let Ok(line) = line { emit(..., line) }.
Deliver(ev, line) == IF Utf8Valid(line) THEN Append(ev, line) ELSE ev

\* Lines 309-313 / 322-326: one turn of `for line in reader.lines()`: the reader
\* takes the bytes up to the next newline (or up to the end of a closed
\* stream), without the newline, and emits them if they decode.
RelayRead(p, s) ==
    LET pipe == pipes[p][s]
        rest == SubSeq(pipe.written, pipe.pos + 1, Len(pipe.written))
        k == FirstNewline(rest)
        line == IF k > 0 THEN SubSeq(rest, 1, k - 1) ELSE rest
        used == IF k > 0 THEN k ELSE Len(rest)
    IN /\ host # "exited"
       /\ relay[p]
       /\ ~pipe.done
       /\ k > 0 \/ (Closed(p, s) /\ rest # <<>>)
       /\ pipes' = [pipes EXCEPT ![p][s].pos = @ + used,
                                 ![p][s].events = Deliver(@, line)]
       /\ emitted' = [emitted EXCEPT ![p][s] = IF Utf8Valid(line) THEN @ + 1 ELSE @]
       /\ UNCHANGED <<PYTHON_CHILD, lock, procVars, pc, op, child, result, installs,
                      replaced, relay, host, config, bootops, staticVars>>

\* lines() returns None at the end of a closed stream: the loop and its thread end.
RelayEnd(p, s) ==
    /\ relay[p]
    /\ ~pipes[p][s].done
    /\ Closed(p, s)
    /\ pipes[p][s].pos = Len(pipes[p][s].written)
    /\ pipes' = [pipes EXCEPT ![p][s].done = TRUE]
    /\ UNCHANGED <<PYTHON_CHILD, lock, procVars, pc, op, child, result, installs,
                   replaced, relay, emitted, host, config, bootops, staticVars>>

\* ------------------------------------------------------------------ specifications
Next ==
    \/ \E t \in CmdThreads, cfg \in SpecConfigs, boot \in BootOutcomes, outcome \in SpawnOutcomes :
          start_python_spawn(t, cfg, boot, outcome)
    \/ \E t \in CmdThreads : start_python_install(t)
    \/ \E t \in CmdThreads : start_python_relay(t)
    \/ \E t \in Threads, o \in CleanupOps : cleanup_python_none(t, o)
    \/ \E t \in Threads, o \in CleanupOps : cleanup_python_take(t, o)
    \/ \E t \in Threads : cleanup_python_poll(t)
    \/ \E t \in Threads : cleanup_python_wait(t)
    \/ \E t \in Threads : Return(t)
    \/ \E p \in Pids : ProcExit(p)
    \/ \E p \in Pids, s \in Streams : RelayEmit(p, s)

Spec == Init /\ [][Next]_vars

\* A worker that has been sent SIGKILL ends.
KilledExit(p) ==
    /\ \E i \in 1..Len(sigs[p]) : sigs[p][i] \in {"KILL", "KILLG"}
    /\ ProcExit(p)

\* The scheduler runs a thread that is inside cleanup_python and can take its
\* next step, and the operating system ends a killed process.  Nothing is
\* assumed of the relay threads, of new calls or of workers that were not killed.
Fairness ==
    /\ \A t \in Threads : WF_vars(cleanup_python_poll(t))
    /\ \A t \in Threads : WF_vars(cleanup_python_wait(t))
    /\ \A p \in Pids : WF_vars(KilledExit(p))

SpecLive == Init /\ [][Next]_vars /\ Fairness

\* One caller issuing start_python calls one after the other, with any
\* StartConfig; once a worker runs, it repeats that worker's request.
Caller == CHOOSE t \in CmdThreads : \A u \in CmdThreads : t <= u
Repeats(cfg) == \A p \in Spawned : argv[p] = Args(cfg)
NextLaunch ==
    \/ \E cfg \in {c \in AllConfigs : Repeats(c)} :
          \E boot \in BootOutcomes, outcome \in SpawnOutcomes :
             start_python_spawn(Caller, cfg, boot, outcome)
    \/ start_python_install(Caller)
    \/ start_python_relay(Caller)
    \/ Return(Caller)

SpecLaunch == Init /\ [][NextLaunch]_vars

\* A packaged build, for macOS or not, on any file system, with one caller
\* issuing start_python calls one after the other.
InitBoot == InitState /\ debug = FALSE /\ macos \in BOOLEAN /\ fs \in BootFs
NextBoot ==
    \/ \E cfg \in SpecConfigs, boot \in BootOutcomes, outcome \in SpawnOutcomes :
          start_python_spawn(Caller, cfg, boot, outcome)
    \/ start_python_install(Caller)
    \/ start_python_relay(Caller)
    \/ Return(Caller)

SpecBoot == InitBoot /\ [][NextBoot]_vars

\* One caller starting one worker; the worker writes bytes to its two streams,
\* closes them or ends, and its relay threads read lines and emit events.  The
\* pipes and relay threads of different workers share nothing.
NextRelay ==
    \/ \E cfg \in SpecConfigs, boot \in BootOutcomes, outcome \in SpawnOutcomes :
          Spawned = {} /\ start_python_spawn(Caller, cfg, boot, outcome)
    \/ start_python_install(Caller)
    \/ start_python_relay(Caller)
    \/ Return(Caller)
    \/ \E p \in Pids : ProcExit(p)
    \/ \E p \in Pids, s \in Streams, b \in Bytes : WorkerWrite(p, s, b)
    \/ \E p \in Pids, s \in Streams : StreamClose(p, s)
    \/ \E p \in Pids, s \in Streams : RelayRead(p, s)
    \/ \E p \in Pids, s \in Streams : RelayEnd(p, s)

SpecRelay == Init /\ [][NextRelay]_vars

\* ================================================================== claims
\* The validity of a StartConfig as the specification states it: a known
\* connection, and each rate, if present, greater than 0.
ValidConfig(cfg) ==
    /\ cfg.connection \in {"wifi", "ble", "usb"}
    /\ cfg.upsample_hz # <<>> => cfg.upsample_hz[1] > 0
    /\ cfg.rate_limit_hz # <<>> => cfg.rate_limit_hz[1] > 0

StartReturned(t) == pc[t] = "done" /\ op[t] = "start_python"
CleanupReturned(t) == pc[t] = "done" /\ op[t] \in CleanupOps
\* The pids a start has taken out of the slot to put its own worker there.
Replaced == {replaced[p] : p \in Pids} \ {None}

\* C1: in every reachable state at most one worker process spawned by the
\* supervisor is alive.
C1_AtMostOneAlive == Cardinality(Alive) <= 1

\* C2: when a start replaced a current handle, the old worker has exited before
\* the first output line of the new worker is emitted.
C2_OldExitedBeforeFirstLine ==
    \A p \in Pids :
        (replaced[p] # None /\ \E s \in Streams : emitted[p][s] > 0)
            => proc[replaced[p]] # "alive"

\* C3: between a start's spawn of its worker and the installation of that worker
\* in the slot, no other call (stop, hook or start) runs.
C3_NoCallBetweenSpawnAndInstall ==
    [][\A u \in Threads :
          (pc[u] = "idle" /\ pc'[u] # "idle")
              => \A t \in CmdThreads \ {u} : pc[t] # "spawned"]_vars

\* C4: once two start calls have both returned success (no hook has run or is
\* running), the worker in the slot is the only worker alive.
C4_OneAliveAfterTwoStarts ==
    ((\A t \in CmdThreads : StartReturned(t) /\ result[t] = "ok")
        /\ pc[Main] = "idle" /\ host = "running")
        => (PYTHON_CHILD # None /\ Alive \subseteq {PYTHON_CHILD})

\* C5: a start with a valid configuration that has returned either returned
\* success having installed exactly one handle, the worker it spawned, or returned
\* an error having installed none.
C5_StartInstallsOrFails ==
    \A t \in CmdThreads :
        (StartReturned(t) /\ ValidConfig(config[t]))
            => \/ result[t] = "ok" /\ installs[t] = 1 /\ child[t] # None
               \/ result[t] = "err" /\ installs[t] = 0 /\ child[t] = None

C5_Witness ==
    \E t, u \in CmdThreads :
        /\ StartReturned(t) /\ ValidConfig(config[t]) /\ result[t] = "ok"
        /\ StartReturned(u) /\ ValidConfig(config[u]) /\ result[u] = "err"

\* C6: a stop or hook that finds the slot empty returns success at once, sends no
\* signal, waits on no process and leaves the slot empty.
C6_StopEmptyIsNoOp ==
    [][\A t \in Threads :
          (pc[t] = "idle" /\ pc'[t] # "idle" /\ op'[t] \in CleanupOps
             /\ PYTHON_CHILD = None)
              => /\ pc'[t] = "done"
                 /\ result'[t] = "ok"
                 /\ PYTHON_CHILD' = None
                 /\ sigs' = sigs
                 /\ proc' = proc]_vars

C6_Witness ==
    \E t \in CmdThreads :
        /\ CleanupReturned(t) /\ child[t] = None /\ result[t] = "ok"
        /\ \E p \in Pids : proc[p] = "reaped"

\* C7: in the termination sequence, a worker found exited at the poll gets no
\* forceful kill, then or later; a worker not exited gets SIGKILL to its group,
\* then SIGKILL to its pid, and is waited for before the call returns.
C7_TerminationSequence ==
    [][/\ \A t \in Threads :
          LET p == child[t] IN
          /\ (pc[t] = "sleep" /\ pc'[t] # "sleep" /\ proc[p] = "exited")
                => (pc'[t] = "done" /\ sigs'[p] = <<"TERM">>)
          /\ (pc[t] = "sleep" /\ pc'[t] # "sleep" /\ proc[p] # "exited")
                => (pc'[t] = "wait" /\ sigs'[p] = <<"TERM", "KILLG", "KILL">>)
          /\ (op[t] \in CleanupOps /\ p # None /\ pc[t] # "done" /\ pc'[t] = "done")
                => /\ proc'[p] = "reaped"
                   /\ \/ pc[t] = "sleep" /\ sigs'[p] = <<"TERM">>
                      \/ pc[t] = "wait" /\ sigs'[p] = <<"TERM", "KILLG", "KILL">>
          /\ (op[t] \in CleanupOps /\ p # None /\ pc[t] = "done")
                => sigs'[p] = sigs[p]
       /\ \A q \in Pids :
             (proc[q] = "reaped" /\ sigs[q] = <<"TERM">>) => sigs'[q] = sigs[q]]_vars

C7_Witness ==
    \E p, q \in Pids :
        /\ proc[p] = "reaped" /\ sigs[p] = <<"TERM">>
        /\ proc[q] = "reaped" /\ sigs[q] = <<"TERM", "KILLG", "KILL">>

C9_InvalidConfigRejected ==
    \A t \in CmdThreads :
        (op[t] = "start_python" /\ ~ValidConfig(config[t]))
            => (result[t] = "err" /\ child[t] = None)

\* C10: when a stop or hook that found a handle returns, that worker has exited
\* and the slot is empty; a handle a cleanup took is never in the slot again.
C10_RetiredForGood ==
    [][/\ \A t \in Threads :
             (op[t] \in CleanupOps /\ child[t] # None /\ pc[t] # "done" /\ pc'[t] = "done")
                 => /\ proc'[child[t]] \in {"exited", "reaped"}
                    /\ PYTHON_CHILD' = None
                    /\ result'[t] = "ok"
       /\ \A p \in Pids :
             (sigs[p] # <<>> /\ sigs[p][1] = "TERM") => PYTHON_CHILD' # p]_vars

C10_Witness ==
    \E t \in CmdThreads :
        /\ CleanupReturned(t) /\ child[t] # None
        /\ CleanupReturned(Main) /\ child[Main] # None /\ child[Main] # child[t]
        /\ proc[child[t]] = "reaped" /\ proc[child[Main]] = "reaped"

InCleanup(t) == pc[t] \in {"sleep", "wait"}

\* C11: every termination sequence that has taken a handle eventually returns
\* with that worker exited and collected, whatever the relay threads do, given
\* that a killed process ends; a relay step never touches the lock.
C11_CleanupReturns ==
    /\ \A t \in Threads :
          InCleanup(t) ~> /\ pc[t] = "done" /\ lock # t
                          /\ child[t] # None /\ proc[child[t]] = "reaped"
    /\ [][emitted' # emitted => lock' = lock]_vars

C11_Witness ==
    /\ CleanupReturned(Main) /\ op[Main] = "Destroyed" /\ child[Main] # None
    /\ sigs[child[Main]] = <<"TERM", "KILLG", "KILL">>
    /\ relay[child[Main]] /\ Relayed = 0

\* What lines() yields for the bytes b of a stream read to its end.
RECURSIVE SplitLines(_)
SplitLines(b) ==
    IF b = <<>> THEN <<>>
    ELSE IF \A i \in 1..Len(b) : b[i] # Newline THEN <<b>>
    ELSE <<SubSeq(b, 1, FirstNewline(b) - 1)>>
         \o SplitLines(SubSeq(b, FirstNewline(b) + 1, Len(b)))

\* C12: for each worker and stream, the events emitted so far are, in order,
\* the decodable ones among the lines the reader has consumed; the loop ends
\* only at the end of a closed stream, having then emitted the decodable lines
\* of everything the worker wrote.
C12_EventsAreValidLines ==
    \A p \in Pids, s \in Streams :
       LET pipe == pipes[p][s]
       IN /\ pipe.events = SelectSeq(SplitLines(SubSeq(pipe.written, 1, pipe.pos)), Utf8Valid)
          /\ emitted[p][s] = Len(pipe.events)
          /\ pipe.done => /\ Closed(p, s)
                          /\ pipe.events = SelectSeq(SplitLines(pipe.written), Utf8Valid)

C12_Witness ==
    \E p \in Pids :
       /\ pipes[p]["stdout"].done
       /\ pipes[p]["stdout"].written = <<InvalidByte, Newline, 65, Newline>>
       /\ pipes[p]["stdout"].events = <<(<<65>>)>>

\* Thread t takes the first step of a start_python call of a packaged build.
PackagedStart(t) == ~debug /\ pc[t] = "idle" /\ pc'[t] # "idle" /\ op'[t] = "start_python"

BootstrapOpNames ==
    {"create_dir_all", "copy_dir_all", "venv", "pip_upgrade", "pip_requirements",
     "pip_package"}
IsBootstrapOp(o) == o \in BootstrapOpNames

BootstrapFailed(t) ==
    /\ Len(bootops[t]) >= 3 /\ bootops[t][1] = "create_dir_all"
    /\ Pyproject("data/python") \notin fs \/ RtPython \notin fs \/ RtPip \notin fs

\* C14: in a packaged build, whatever the bootstrap steps did, the start can go
\* on to a successful spawn; a start that does not fail at the spawn has spawned
\* one worker, running the runtime interpreter if that exists once the
\* bootstrap is over and "python3" otherwise.
C14_BootstrapFailureNotAnError ==
    /\ [](\A boot \in BootOutcomes :
            (~debug /\ host # "exited" /\ pc[Caller] = "idle" /\ NextPid \in Pids) =>
               \A cfg \in SpecConfigs : ENABLED start_python_spawn(Caller, cfg, boot, "ok"))
    /\ [][\A t \in Threads :
            (PackagedStart(t) /\ result'[t] # "err") =>
               /\ child'[t] \in Pids /\ proc[child'[t]] = "unborn"
               /\ proc'[child'[t]] = "alive"
               /\ prog'[child'[t]] = IF AppDataDir \in fs' /\ RtPython \in fs'
                                     THEN RtPython ELSE "python3"]_vars

\* A start has returned Ok with python3 after a bootstrap that produced nothing.
C14_Witness ==
    /\ ~debug /\ StartReturned(Caller) /\ result[Caller] = "ok"
    /\ BootstrapFailed(Caller)
    /\ RtPython \notin fs /\ prog[child[Caller]] = "python3"

\* The optional fields of cfg in the order of the claim, each with its flag
\* and the text of its value (<<>> when the field is absent).
RateText(o) == IF o = <<>> THEN <<>> ELSE <<F64ToString(o[1])>>
OptionalFields(cfg) ==
    << <<"--name", cfg.name>>, <<"--code", cfg.code>>,
       <<"--upsample-hz", RateText(cfg.upsample_hz)>>,
       <<"--rate-limit-hz", RateText(cfg.rate_limit_hz)>> >>
IsPresent(e) == e[2] # <<>>
ArgvMatches(a, cfg) ==
    LET present == SelectSeq(OptionalFields(cfg), IsPresent)
    IN /\ Len(a) = 4 + 2 * Len(present)
       /\ a[1] = "-m" /\ a[2] = "televoodoo"
       /\ a[3] = "--connection" /\ a[4] = cfg.connection
       /\ \A i \in 1..Len(present) :
             a[3 + 2 * i] = present[i][1] /\ a[4 + 2 * i] = present[i][2][1]

\* C15: the argument list of every spawned worker is -m televoodoo,
\* --connection and its value, then the flag and value of each of name, code,
\* upsampleHz, rateLimitHz that the call's StartConfig holds, in that order, and
\* nothing for an absent field.
C15_ArgvExact ==
    \A t \in CmdThreads :
       (op[t] = "start_python" /\ pc[t] # "idle" /\ child[t] # None) =>
          ArgvMatches(argv[child[t]], config[t])

C15_Witness ==
    \E t \in CmdThreads :
       /\ StartReturned(t) /\ result[t] = "ok"
       /\ config[t] = StartConfig("ble", <<>>, <<"ABC123">>, <<>>, <<5>>)
       /\ argv[child[t]] = <<"-m", "televoodoo", "--connection", "ble",
                             "--code", "ABC123", "--rate-limit-hz", "0.5">>

\* The order the claim gives: the bundled package directory if it holds the
\* manifest, otherwise the runtime copy if it holds the manifest, otherwise
\* nothing (the worker inherits the host's directory).
ClaimedWorkingDir(f) ==
    LET b == find_bundled_python_dir(f) IN
    IF b # <<>> /\ Pyproject(b[1]) \in f THEN <<Join(b[1], "televoodoo")>>
    ELSE IF AppDataDir \in f /\ Pyproject("data/python") \in f THEN <<RtTelevoodoo>>
    ELSE <<>>

\* C16: in a packaged build the worker's working directory is the bundled
\* package directory if it holds the manifest, else the runtime copy if it
\* holds the manifest, else the host's own, for every combination of existing
\* directories.
C16_WorkingDirOrder ==
    [][\A t \in Threads :
          (PackagedStart(t) /\ result'[t] # "err") =>
             cwd'[child'[t]] = ClaimedWorkingDir(fs')]_vars

\* C17: the relay loops of a worker start only in a step of the start_python
\* call that spawned it, after that call has stored the worker in the slot, and
\* that step is the call's return of Ok; no loop runs for a worker of a call
\* that returned Err.
C17_RelayAfterInstall ==
    [][\A p \in Pids :
          (~relay[p] /\ relay'[p]) =>
             \E t \in CmdThreads :
                /\ op[t] = "start_python" /\ child[t] = p
                /\ pc[t] = "installed" /\ installs[t] = 1
                /\ pc'[t] = "done" /\ result'[t] = "ok"
                /\ proc[p] # "unborn"]_vars

C17_Witness ==
    \E t \in CmdThreads :
       /\ StartReturned(t) /\ result[t] = "ok" /\ installs[t] = 1
       /\ relay[child[t]] /\ PYTHON_CHILD = child[t]
       /\ emitted[child[t]]["stderr"] = 1

\* C18: the step in which a start_python call returns Err spawns no worker,
\* sends no signal and leaves the slot, every worker and every relay as they
\* were; the call holds no child and has stored nothing.
C18_ErrChangesNothing ==
    [][\A t \in CmdThreads :
          (result[t] # "err" /\ result'[t] = "err") =>
             /\ op'[t] = "start_python"
             /\ proc' = proc /\ sigs' = sigs /\ PYTHON_CHILD' = PYTHON_CHILD
             /\ relay' = relay /\ lock' = lock
             /\ child'[t] = None /\ installs'[t] = 0]_vars

\* A start has returned Err while a current worker runs on, unsignalled.
C18_Witness ==
    \E t \in CmdThreads :
       /\ StartReturned(t) /\ result[t] = "err"
       /\ PYTHON_CHILD # None /\ proc[PYTHON_CHILD] = "alive"
       /\ sigs[PYTHON_CHILD] = <<>> /\ relay[PYTHON_CHILD]
       /\ Alive = {PYTHON_CHILD}

\* No start_python, stop_python, hook or final cleanup is under way.
NoCallInProgress == \A t \in Threads : pc[t] \in {"idle", "done"}

\* C19: whenever no call is in progress, every worker that is alive is the one
\* held in the slot: no spawned worker is alive and untracked.
C19_AliveAreTracked == NoCallInProgress => Alive \subseteq {PYTHON_CHILD}

ShutdownOps == {"CloseRequested", "Destroyed", "exit"}

\* C20: at the return of the cleanup run by a shutdown hook or at process exit,
\* no worker spawned by the supervisor is alive, also when a start_python
\* call was under way while the cleanup ran.
C20_NoWorkerAfterShutdownCleanup ==
    [][(pc[Main] # "done" /\ pc'[Main] = "done" /\ op'[Main] \in ShutdownOps) =>
          Alive' = {}]_vars

====
